---- MODULE Spec2Model ----
(***************************************************************************)
(* Model of Freqs (src/Freqs/freqs.cpp): a word-frequency counter.  Main   *)
(* loads a file, decodes it with a hand-written UTF-8 decoder, folds the   *)
(* letters of two alphabets to lower case, gathers maximal alphabetic      *)
(* runs, counts equal runs, sorts and writes "<count> <bytes>" lines.      *)
(*                                                                         *)
(* Indices (byteIndex, startLetterIndex, ...) are 0-based as in the C++;   *)
(* a TLA+ sequence s is read at s[i + 1].                                  *)
(***************************************************************************)
EXTENDS Integers, Sequences, FiniteSets, TLC

VARIABLES
    argc,            \* Main's argc
    canOpenInput,    \* environment: std::ifstream(argv[1]) opens
    canOpenOutput,   \* environment: std::ofstream(argv[2]) opens
    canReadFully,    \* environment: input.read leaves the stream good
    pc,              \* position in Main
    exitCode,        \* value returned by Main (-1 while running)
    failedAt,        \* which return statement ended Main early
    buffer,          \* the byte buffer filled by ReadStreamToBuffer
    byteIndex,       \* ReadUtfLetters::byteIndex (*startIndex in ReadUtfLetter)
    prevByteIndex,   \* ReadUtfLetters::prevByteIndex
    bytesCount,      \* ReadUtfLetter::bytesCount
    letter,          \* ReadUtfLetters::letter
    letters,         \* std::vector<uint32_t> letters
    lettersInfos,    \* std::vector<LetterInfo> lettersInfos
    letterIndex,     \* loop index of the "Gather words" loop
    firstLetter,     \* int firstLetter (-1: no word open)
    words,           \* std::vector<WordInfo> words
    registered,      \* the registerWord calls made so far, in order
    output,          \* lines written to the output file
    cp,              \* classifier probe: a codepoint
    cpFolded,        \* classifier probe: cp after the fold pass (-1: not yet)
    cpAlpha          \* classifier probe: what IsAlpha says of the folded cp

vars == <<argc, canOpenInput, canOpenOutput, canReadFully, pc, exitCode,
          failedAt, buffer, byteIndex, prevByteIndex, bytesCount, letter,
          letters, lettersInfos, letterIndex, firstLetter, words, registered,
          output, cp, cpFolded, cpAlpha>>

mainVars == <<argc, canOpenInput, canOpenOutput, canReadFully, pc, exitCode,
              failedAt, buffer, byteIndex, prevByteIndex, bytesCount, letter,
              letters, lettersInfos, letterIndex, firstLetter, words,
              registered, output>>

probeVars == <<cp, cpFolded, cpAlpha>>

----------------------------------------------------------------------------
(* Bounds of the model *)

\* longest text buffer
MaxLen == 5
\* longest tail after the first byte of a decoder buffer
MaxTail == 5
\* largest codepoint given to the classifier probe
MaxCodepoint == 1200

(* Widths of the C++ integer types *)
Uint8Range == 2^8
\* a uint32_t shifted left by 6 keeps its low 26 bits
Uint32ShiftKeep == 2^26

----------------------------------------------------------------------------
(* enum class ExitCode *)

NoError == 0
InvalidInputArgsCount == 1
InvalidInputFile == 2
InvalidOutputFile == 3
InvalidFileFormatWrong == InvalidInputFile
InvalidFileFormat == 4

----------------------------------------------------------------------------
(* Inputs *)

SeqsUpTo(S, n) == UNION {[1..k -> S] : k \in 0..n}

\* ' ', 'A', 'a', 'b', and the bytes of U+0410 (D0 90) and U+0430 (D0 B0)
TextBytes == {32, 65, 97, 98, 208, 144, 176}
TextBuffers == SeqsUpTo(TextBytes, MaxLen)

\* any first byte, followed by continuation bytes and ASCII bytes
TailBytes == {128, 65}
DecodeBuffers == {<<f>> \o t : f \in 0..255, t \in SeqsUpTo(TailBytes, MaxTail)}

\* a first byte followed by 2^8 continuation bytes
LongSpan == Uint8Range + 1
LongBuffer == [i \in 1..LongSpan |-> IF i = 1 THEN 252 ELSE 128]

Buffers == TextBuffers \cup DecodeBuffers \cup {LongBuffer}

\* values an uninitialised size_t / uint32_t may hold
UninitSizeT == {0, 2, 6, LongSpan}
UninitUint32 == {0, 97}

----------------------------------------------------------------------------
(* namespace encoding *)

Bit(byte, i) == (byte \div 2^i) % 2

\* the while(byteIndex > 1) scan: the index of the first zero bit found,
\* 0 when the loop runs out
RECURSIVE ScanZeroBit(_, _)
ScanZeroBit(byte, bitIndex) ==
    IF bitIndex > 1
    THEN IF Bit(byte, bitIndex) = 0 THEN bitIndex
         ELSE ScanZeroBit(byte, bitIndex - 1)
    ELSE 0

\* The set of results the call can have: *bytesCount and *letter are only
\* written on two of the three "return true" paths; on the third they keep
\* the callers' uninitialised values.
InterpretFirstUtfByte(byte) ==
    IF Bit(byte, 7) = 0
    THEN {[ok |-> TRUE, bytesCount |-> 1, letter |-> byte]}
    ELSE LET p == ScanZeroBit(byte, 5) IN
         IF p # 0
         THEN {[ok |-> TRUE, bytesCount |-> 7 - p, letter |-> byte % 2^p]}
         ELSE {[ok |-> TRUE, bytesCount |-> n, letter |-> l] :
                  n \in UninitSizeT, l \in UninitUint32}

InterpretNextUtfByteLax(l, byte) ==
    IF Bit(byte, 7) = 0
    THEN [ok |-> FALSE, letter |-> l]
    ELSE [ok |-> TRUE, letter |-> ((l % Uint32ShiftKeep) * 64) + (byte % 64)]

InterpretNextUtfByte(l, byte) ==
    IF Bit(byte, 7) = 0 \/ Bit(byte, 6) # 0
    THEN [ok |-> FALSE, letter |-> l]
    ELSE [ok |-> TRUE, letter |-> ((l % Uint32ShiftKeep) * 64) + (byte % 64)]

\* LetterInfo as ReadUtfLetters fills it; bytesCount is a uint8_t
LetterInfo(offset, length) ==
    [bufferOffset |-> offset, bytesCount |-> length % Uint8Range]

----------------------------------------------------------------------------
(* Alphabets, IsAlpha and the fold pass *)

alphabets ==
    << [upperCaseBegin |-> 65,   lowerCaseBegin |-> 97,   lowerCaseEnd |-> 122],
       [upperCaseBegin |-> 1040, lowerCaseBegin |-> 1072, lowerCaseEnd |-> 1104] >>

RECURSIVE IsAlphaFrom(_, _)
IsAlphaFrom(l, i) ==
    IF i > Len(alphabets) THEN FALSE
    ELSE IF l < alphabets[i].upperCaseBegin THEN FALSE
    ELSE IF l < alphabets[i].lowerCaseEnd THEN TRUE
    ELSE IsAlphaFrom(l, i + 1)

IsAlpha(l) == IsAlphaFrom(l, 1)

RECURSIVE FoldFrom(_, _)
FoldFrom(l, i) ==
    IF i > Len(alphabets) THEN l
    ELSE IF l >= alphabets[i].upperCaseBegin /\ l < alphabets[i].lowerCaseBegin
    THEN l + alphabets[i].lowerCaseBegin - alphabets[i].upperCaseBegin
    ELSE FoldFrom(l, i + 1)

FoldLatinOnly(l) ==
    IF l >= alphabets[1].upperCaseBegin /\ l < alphabets[1].lowerCaseBegin
    THEN l + alphabets[1].lowerCaseBegin - alphabets[1].upperCaseBegin
    ELSE l

Fold(l) == FoldFrom(l, 1)

----------------------------------------------------------------------------
(* WordInfo, registerWord, the sort comparator and the write loop *)

WordInfo(start, count, n) ==
    [startLetterIndex |-> start, lettersCount |-> count, entries |-> n]

\* letters[first .. first + count), 0-based
LettersOf(ls, first, count) == [k \in 1..count |-> ls[first + k]]

\* the duplicate test of registerWord's loop body
SameWord(ls, word, first, count) ==
    /\ word.lettersCount = count
    /\ \A k \in 0..(word.lettersCount - 1) :
           ls[first + k + 1] = ls[word.startLetterIndex + k + 1]

registerWordKeepLast(ws, ls, first, count) ==
    LET dup == {i \in 1..Len(ws) : SameWord(ls, ws[i], first, count)} IN
    IF dup # {}
    THEN LET i == CHOOSE j \in dup : \A k \in dup : j <= k IN
         [ws EXCEPT ![i] = WordInfo(first, count, ws[i].entries + 1)]
    ELSE Append(ws, WordInfo(first, count, 1))

registerWordNoReturn(ws, ls, first, count) ==
    LET dup == {i \in 1..Len(ws) : SameWord(ls, ws[i], first, count)} IN
    LET bumped == [i \in 1..Len(ws) |->
                      IF i \in dup THEN [ws[i] EXCEPT !.entries = @ + 1]
                      ELSE ws[i]] IN
    Append(bumped, WordInfo(first, count, 1))

registerWord(ws, ls, first, count) ==
    LET dup == {i \in 1..Len(ws) : SameWord(ls, ws[i], first, count)} IN
    IF dup # {}
    THEN LET i == CHOOSE j \in dup : \A k \in dup : j <= k IN
         [ws EXCEPT ![i].entries = @ + 1]
    ELSE Append(ws, WordInfo(first, count, 1))

\* std::lexicographical_compare
RECURSIVE LexicographicalCompare(_, _)
LexicographicalCompare(s, t) ==
    IF t = <<>> THEN FALSE
    ELSE IF s = <<>> THEN TRUE
    ELSE IF s[1] < t[1] THEN TRUE
    ELSE IF t[1] < s[1] THEN FALSE
    ELSE LexicographicalCompare(Tail(s), Tail(t))

WordLessAscending(ls, a, b) ==
    IF a.entries = b.entries
    THEN LexicographicalCompare(
             LettersOf(ls, a.startLetterIndex, a.lettersCount),
             LettersOf(ls, b.startLetterIndex, b.lettersCount))
    ELSE a.entries < b.entries

\* the lambda given to std::sort
WordLess(ls, a, b) ==
    IF a.entries = b.entries
    THEN LexicographicalCompare(
             LettersOf(ls, a.startLetterIndex, a.lettersCount),
             LettersOf(ls, b.startLetterIndex, b.lettersCount))
    ELSE a.entries > b.entries

\* std::sort: the records are pairwise inequivalent under WordLess, so the
\* sorted order is unique; it is computed here by insertion.
RECURSIVE InsertWord(_, _, _)
InsertWord(ls, w, sorted) ==
    IF sorted = <<>> THEN <<w>>
    ELSE IF WordLess(ls, w, sorted[1]) THEN <<w>> \o sorted
    ELSE <<sorted[1]>> \o InsertWord(ls, w, Tail(sorted))

RECURSIVE SortWords(_, _)
SortWords(ls, ws) ==
    IF ws = <<>> THEN <<>>
    ELSE InsertWord(ls, ws[1], SortWords(ls, Tail(ws)))

\* operator<< of a size_t: decimal digits, as bytes
RECURSIVE Decimal(_)
Decimal(n) ==
    IF n < 10 THEN <<48 + n>>
    ELSE Append(Decimal(n \div 10), 48 + (n % 10))

\* output.write(buffer + bufferOffset, bytesCount) for letters [first, first + count)
RECURSIVE WordBytes(_, _, _, _)
WordBytes(buf, infos, first, count) ==
    IF count = 0 THEN <<>>
    ELSE LET li == infos[first + 1] IN
         SubSeq(buf, li.bufferOffset + 1, li.bufferOffset + li.bytesCount)
             \o WordBytes(buf, infos, first + 1, count - 1)

\* one pass of the write loop: "<entries> <bytes>" and std::endl
WriteLine(buf, infos, word) ==
    Decimal(word.entries) \o <<32>>
        \o WordBytes(buf, infos, word.startLetterIndex, word.lettersCount)
        \o <<10>>

----------------------------------------------------------------------------
(* Main *)

Return(code, where) ==
    /\ pc' = "done"
    /\ exitCode' = code
    /\ failedAt' = where

NotStarted ==
    /\ pc = "start" /\ exitCode = -1 /\ failedAt = "none"
    /\ buffer = <<>> /\ byteIndex = 0 /\ prevByteIndex = 0
    /\ bytesCount = 0 /\ letter = 0
    /\ letters = <<>> /\ lettersInfos = <<>>
    /\ letterIndex = 0 /\ firstLetter = -1
    /\ words = <<>> /\ registered = <<>> /\ output = <<>>

ProbeIdle == cp = 0 /\ cpFolded = -1 /\ cpAlpha = "unset"

Init ==
    /\ argc \in 2..4
    /\ canOpenInput \in BOOLEAN
    /\ canOpenOutput \in BOOLEAN
    /\ canReadFully \in BOOLEAN
    /\ NotStarted
    /\ ProbeIdle

\* if(argc != 3)
CheckArgs ==
    /\ pc = "start"
    /\ IF argc # 3
       THEN Return(InvalidInputArgsCount, "args")
       ELSE pc' = "openInput" /\ UNCHANGED <<exitCode, failedAt>>
    /\ UNCHANGED <<argc, canOpenInput, canOpenOutput, canReadFully, buffer,
                   byteIndex, prevByteIndex, bytesCount, letter, letters,
                   lettersInfos, letterIndex, firstLetter, words, registered,
                   output, cp, cpFolded, cpAlpha>>

\* std::ifstream input(...); if(!input.is_open())
OpenInput ==
    /\ pc = "openInput"
    /\ IF ~canOpenInput
       THEN Return(InvalidInputFile, "openInput")
       ELSE pc' = "openOutput" /\ UNCHANGED <<exitCode, failedAt>>
    /\ UNCHANGED <<argc, canOpenInput, canOpenOutput, canReadFully, buffer,
                   byteIndex, prevByteIndex, bytesCount, letter, letters,
                   lettersInfos, letterIndex, firstLetter, words, registered,
                   output, cp, cpFolded, cpAlpha>>

\* std::ofstream output(...); if(!output.is_open())
OpenOutput ==
    /\ pc = "openOutput"
    /\ IF ~canOpenOutput
       THEN Return(InvalidOutputFile, "openOutput")
       ELSE pc' = "read" /\ UNCHANGED <<exitCode, failedAt>>
    /\ UNCHANGED <<argc, canOpenInput, canOpenOutput, canReadFully, buffer,
                   byteIndex, prevByteIndex, bytesCount, letter, letters,
                   lettersInfos, letterIndex, firstLetter, words, registered,
                   output, cp, cpFolded, cpAlpha>>

\* if(!ReadStreamToBuffer(input, &buffer, &bufferSize)); the file's bytes
\* are whatever the file holds
ReadStreamToBuffer ==
    /\ pc = "read"
    /\ IF ~canReadFully
       THEN Return(InvalidInputFile, "read") /\ UNCHANGED buffer
       ELSE /\ \E bytes \in Buffers : buffer' = bytes
            /\ pc' = "letters"
            /\ UNCHANGED <<exitCode, failedAt>>
    /\ UNCHANGED <<argc, canOpenInput, canOpenOutput, canReadFully,
                   byteIndex, prevByteIndex, bytesCount, letter, letters,
                   lettersInfos, letterIndex, firstLetter, words, registered,
                   output, cp, cpFolded, cpAlpha>>

\* ReadUtfLetters: while(byteIndex < bufferSize), then ReadUtfLetter up to
\* and including InterpretFirstUtfByte.  The guard of line 61 cannot fire
\* under the loop condition.
ReadUtfLetterFirst ==
    /\ pc = "letters"
    /\ byteIndex < Len(buffer)
    /\ prevByteIndex' = byteIndex
    /\ \E r \in InterpretFirstUtfByte(buffer[byteIndex + 1]) :
          IF ~r.ok
          THEN /\ Return(InvalidFileFormat, "utfFirst")
               /\ UNCHANGED <<bytesCount, letter>>
          ELSE /\ bytesCount' = r.bytesCount
               /\ letter' = r.letter
               /\ pc' = "continuation"
               /\ UNCHANGED <<exitCode, failedAt>>
    /\ UNCHANGED <<argc, canOpenInput, canOpenOutput, canReadFully, buffer,
                   byteIndex, letters, lettersInfos, letterIndex, firstLetter,
                   words, registered, output, cp, cpFolded, cpAlpha>>

\* ReadUtfLetter: one test of while(bytesCount-- > 1) and what follows it:
\* either one continuation byte, or ++(*startIndex), return true and the
\* two push_backs of ReadUtfLetters.  The local bytesCount dies on return.
ReadUtfLetterNext ==
    /\ pc = "continuation"
    /\ IF bytesCount > 1
       THEN /\ bytesCount' = bytesCount - 1
            /\ byteIndex' = byteIndex + 1
            /\ IF byteIndex + 1 >= Len(buffer)
               THEN Return(InvalidFileFormat, "utfEnd") /\ UNCHANGED letter
               ELSE LET r == InterpretNextUtfByte(letter, buffer[byteIndex + 2]) IN
                    IF ~r.ok
                    THEN Return(InvalidFileFormat, "utfPattern") /\ UNCHANGED letter
                    ELSE /\ letter' = r.letter
                         /\ UNCHANGED <<pc, exitCode, failedAt>>
            /\ UNCHANGED <<letters, lettersInfos>>
       ELSE /\ bytesCount' = 0
            /\ byteIndex' = byteIndex + 1
            /\ letters' = Append(letters, letter)
            /\ lettersInfos' = Append(lettersInfos,
                                   LetterInfo(prevByteIndex, byteIndex + 1 - prevByteIndex))
            /\ pc' = "letters"
            /\ UNCHANGED <<letter, exitCode, failedAt>>
    /\ UNCHANGED <<argc, canOpenInput, canOpenOutput, canReadFully, buffer,
                   prevByteIndex, letterIndex, firstLetter, words, registered,
                   output, cp, cpFolded, cpAlpha>>

\* ReadUtfLetters returns true; then the fold pass over every letter
FoldLetters ==
    /\ pc = "letters"
    /\ byteIndex >= Len(buffer)
    /\ letters' = [i \in 1..Len(letters) |-> Fold(letters[i])]
    /\ pc' = "gather"
    /\ UNCHANGED <<argc, canOpenInput, canOpenOutput, canReadFully, exitCode,
                   failedAt, buffer, byteIndex, prevByteIndex, bytesCount,
                   letter, lettersInfos, letterIndex, firstLetter, words,
                   registered, output, cp, cpFolded, cpAlpha>>

\* one iteration of the "Gather words" loop
GatherWords ==
    /\ pc = "gather"
    /\ letterIndex < Len(letters)
    /\ IF IsAlpha(letters[letterIndex + 1])
       THEN /\ firstLetter' = IF firstLetter = -1 THEN letterIndex ELSE firstLetter
            /\ UNCHANGED <<words, registered>>
       ELSE IF firstLetter # -1
       THEN /\ words' = registerWord(words, letters, firstLetter,
                                     letterIndex - firstLetter)
            /\ registered' = Append(registered,
                                    <<firstLetter, letterIndex - firstLetter>>)
            /\ firstLetter' = -1
       ELSE UNCHANGED <<firstLetter, words, registered>>
    /\ letterIndex' = letterIndex + 1
    /\ UNCHANGED <<argc, canOpenInput, canOpenOutput, canReadFully, pc,
                   exitCode, failedAt, buffer, byteIndex, prevByteIndex,
                   bytesCount, letter, letters, lettersInfos, output, cp,
                   cpFolded, cpAlpha>>

GatherLastWordSkipped ==
    /\ pc = "gather"
    /\ letterIndex >= Len(letters)
    /\ pc' = "sort"
    /\ UNCHANGED <<argc, canOpenInput, canOpenOutput, canReadFully, exitCode,
                   failedAt, buffer, byteIndex, prevByteIndex, bytesCount,
                   letter, letters, lettersInfos, letterIndex, firstLetter,
                   words, registered, output, cp, cpFolded, cpAlpha>>

\* the loop ends; "Last word"
GatherLastWord ==
    /\ pc = "gather"
    /\ letterIndex >= Len(letters)
    /\ IF firstLetter # -1
       THEN /\ words' = registerWord(words, letters, firstLetter,
                                     Len(letters) - firstLetter)
            /\ registered' = Append(registered,
                                    <<firstLetter, Len(letters) - firstLetter>>)
       ELSE UNCHANGED <<words, registered>>
    /\ pc' = "sort"
    /\ UNCHANGED <<argc, canOpenInput, canOpenOutput, canReadFully, exitCode,
                   failedAt, buffer, byteIndex, prevByteIndex, bytesCount,
                   letter, letters, lettersInfos, letterIndex, firstLetter,
                   output, cp, cpFolded, cpAlpha>>

\* std::sort(words.begin(), words.end(), ...)
SortStep ==
    /\ pc = "sort"
    /\ words' = SortWords(letters, words)
    /\ pc' = "write"
    /\ UNCHANGED <<argc, canOpenInput, canOpenOutput, canReadFully, exitCode,
                   failedAt, buffer, byteIndex, prevByteIndex, bytesCount,
                   letter, letters, lettersInfos, letterIndex, firstLetter,
                   registered, output, cp, cpFolded, cpAlpha>>

\* the write loop, output.close() and return ExitCode::NoError
WriteWords ==
    /\ pc = "write"
    /\ output' = [i \in 1..Len(words) |-> WriteLine(buffer, lettersInfos, words[i])]
    /\ Return(NoError, "none")
    /\ UNCHANGED <<argc, canOpenInput, canOpenOutput, canReadFully, buffer,
                   byteIndex, prevByteIndex, bytesCount, letter, letters,
                   lettersInfos, letterIndex, firstLetter, words, registered,
                   cp, cpFolded, cpAlpha>>

Next ==
    \/ CheckArgs
    \/ OpenInput
    \/ OpenOutput
    \/ ReadStreamToBuffer
    \/ ReadUtfLetterFirst
    \/ ReadUtfLetterNext
    \/ FoldLetters
    \/ GatherWords
    \/ GatherLastWord
    \/ SortStep
    \/ WriteWords

Spec == Init /\ [][Next]_vars

----------------------------------------------------------------------------
(* The classifier on its own: the fold pass and IsAlpha applied to one     *)
(* codepoint, as the fold pass and the gather loop apply them to a letter. *)

InitAlpha ==
    /\ argc = 3
    /\ canOpenInput = TRUE /\ canOpenOutput = TRUE /\ canReadFully = TRUE
    /\ NotStarted
    /\ cp \in 0..MaxCodepoint
    /\ cpFolded = -1
    /\ cpAlpha = "unset"

ProbeFold ==
    /\ cpFolded = -1
    /\ cpFolded' = Fold(cp)
    /\ UNCHANGED <<cp, cpAlpha>>
    /\ UNCHANGED mainVars

ProbeIsAlpha ==
    /\ cpFolded # -1
    /\ cpAlpha = "unset"
    /\ cpAlpha' = IF IsAlpha(cpFolded) THEN "alpha" ELSE "other"
    /\ UNCHANGED <<cp, cpFolded>>
    /\ UNCHANGED mainVars

NextAlpha == ProbeFold \/ ProbeIsAlpha

SpecAlpha == InitAlpha /\ [][NextAlpha]_vars

----------------------------------------------------------------------------
(* Vocabulary of the properties *)

Finished == pc = "done" /\ exitCode = NoError

Gathered == pc \in {"sort", "write"} \/ Finished

\* 1-based positions of the folded sequence that start / end a maximal run
\* of alphabetic codepoints
RunStarts(ls) ==
    {i \in 1..Len(ls) : IsAlpha(ls[i]) /\ (i = 1 \/ ~IsAlpha(ls[i - 1]))}

RunEnds(ls) ==
    {i \in 1..Len(ls) : IsAlpha(ls[i]) /\ (i = Len(ls) \/ ~IsAlpha(ls[i + 1]))}

\* the maximal runs as <<0-based start, length>>, the shape of a registerWord call
MaximalRuns(ls) ==
    {<<s - 1, (CHOOSE e \in RunEnds(ls) :
                  e >= s /\ \A f \in RunEnds(ls) : f >= s => e <= f) - s + 1>> :
        s \in RunStarts(ls)}

RunLetters(ls, run) == SubSeq(ls, run[1] + 1, run[1] + run[2])

WordLetters(ls, w) ==
    SubSeq(ls, w.startLetterIndex + 1, w.startLetterIndex + w.lettersCount)

\* how many maximal runs spell the given codepoint sequence
Occurrences(ls, spelled) ==
    Cardinality({run \in MaximalRuns(ls) : RunLetters(ls, run) = spelled})

\* the first maximal run, in document order, that spells the sequence
FirstOccurrence(ls, spelled) ==
    CHOOSE run \in MaximalRuns(ls) :
        /\ RunLetters(ls, run) = spelled
        /\ \A other \in MaximalRuns(ls) :
               RunLetters(ls, other) = spelled => run[1] <= other[1]

\* the recorded byte spans of the letters of a run, concatenated
RECURSIVE SpanBytes(_, _)
SpanBytes(from, count) ==
    IF count = 0 THEN <<>>
    ELSE SubSeq(buffer, lettersInfos[from + 1].bufferOffset + 1,
                lettersInfos[from + 1].bufferOffset + lettersInfos[from + 1].bytesCount)
             \o SpanBytes(from + 1, count - 1)

\* strict lexicographic order, by the first position where s and t differ
StrictlyBefore(s, t) ==
    \E k \in 0..Len(s) :
        /\ k <= Len(t)
        /\ \A j \in 1..k : s[j] = t[j]
        /\ \/ (k = Len(s) /\ k < Len(t))
           \/ (k < Len(s) /\ k < Len(t) /\ s[k + 1] < t[k + 1])

\* the decimal count at the head of an output line
HasCount(line, n) ==
    LET d == Decimal(n) IN
    /\ Len(line) > Len(d)
    /\ SubSeq(line, 1, Len(d) + 1) = d \o <<32>>

----------------------------------------------------------------------------
\* C1: Main returns the exit code of the first failing check, in the order
\* argument count (1), input open (2), output open (3), input read (2),
\* UTF-8 decoding (4); it returns 0 only when no check failed.
ExitCodeOfFirstFailure ==
    pc = "done" =>
        exitCode =
            IF argc # 3 THEN 1
            ELSE IF ~canOpenInput THEN 2
            ELSE IF ~canOpenOutput THEN 3
            ELSE IF ~canReadFully THEN 2
            ELSE IF failedAt \in {"utfFirst", "utfEnd", "utfPattern"} THEN 4
            ELSE 0

\* several checks would fail; the earliest decides
WitnessEarliestFailureWins ==
    /\ pc = "done"
    /\ argc = 3
    /\ ~canOpenInput /\ ~canOpenOutput /\ ~canReadFully
    /\ exitCode = 2

\* C2: the sorted records, and so the lines written from them, are strictly
\* ordered: a line has a greater count than the next one, or the same count
\* and a folded codepoint sequence strictly before the next one's.
OutputStrictlyOrdered ==
    Finished =>
        /\ Len(output) = Len(words)
        /\ \A i \in 1..Len(words) : HasCount(output[i], words[i].entries)
        /\ \A i \in 1..(Len(words) - 1) :
               \/ words[i].entries > words[i + 1].entries
               \/ /\ words[i].entries = words[i + 1].entries
                  /\ StrictlyBefore(WordLetters(letters, words[i]),
                                    WordLetters(letters, words[i + 1]))

\* a word seen once first and a word seen twice after it: the sort moves
\* the more frequent one in front
WitnessSortedByCount ==
    /\ Finished
    /\ Len(words) = 2
    /\ words[1].entries = 2 /\ words[2].entries = 1
    /\ words[1].startLetterIndex > words[2].startLetterIndex

\* C3: one line per distinct folded word, whose count is the number of
\* occurrences of that word in the input; occurrences that differ only in
\* letter case ("A a", U+0410 U+0430) are counted together.
OneLinePerWordWithItsCount ==
    Finished =>
        /\ Len(output) =
               Cardinality({RunLetters(letters, run) : run \in MaximalRuns(letters)})
        /\ \A i \in 1..Len(output) :
               /\ i <= Len(words)
               /\ HasCount(output[i],
                           Occurrences(letters, WordLetters(letters, words[i])))
               /\ \A j \in 1..Len(words) :
                      j # i => WordLetters(letters, words[j])
                                   # WordLetters(letters, words[i])
        /\ buffer = <<65, 32, 97>> =>
               Len(output) = 1 /\ HasCount(output[1], 2)
        /\ buffer = <<208, 144, 32, 208, 176>> =>
               Len(output) = 1 /\ HasCount(output[1], 2)

\* U+0410 and U+0430 merged into one line of count 2
WitnessCyrillicCaseMerged ==
    /\ Finished
    /\ buffer = <<208, 144, 32, 208, 176>>
    /\ Len(output) = 1
    /\ words[1].entries = 2

\* C4: after "<count> ", a line holds the recorded byte spans of the first
\* occurrence, in document order, of its folded word, in that occurrence's
\* own letter case.
LineHoldsFirstOccurrenceBytes ==
    Finished =>
        /\ Len(output) = Len(words)
        /\ \A i \in 1..Len(words) :
               LET first == FirstOccurrence(letters, WordLetters(letters, words[i])) IN
               output[i] = Decimal(words[i].entries) \o <<32>>
                               \o SpanBytes(first[1], first[2]) \o <<10>>
        /\ buffer = <<65, 32, 97>> => output = << <<50, 32, 65, 10>> >>
        /\ buffer = <<97, 32, 65>> => output = << <<50, 32, 97, 10>> >>

\* "A a A": three occurrences merged, written as the first one, "A"
WitnessFirstCasingKept ==
    /\ Finished
    /\ buffer = <<65, 32, 97, 32, 65>>
    /\ output = << <<51, 32, 65, 10>> >>

----------------------------------------------------------------------------
\* C5: once ReadUtfLetters has returned true, the recorded spans are
\* contiguous and cover the buffer: the first starts at 0, each starts where
\* the previous one ends, the last ends at bufferSize, and their bytes in
\* order are the buffer.
SpansCoverBuffer ==
    (Gathered \/ pc = "gather") =>
        /\ Len(lettersInfos) = 0 => Len(buffer) = 0
        /\ Len(lettersInfos) > 0 =>
               /\ lettersInfos[1].bufferOffset = 0
               /\ lettersInfos[Len(lettersInfos)].bufferOffset
                      + lettersInfos[Len(lettersInfos)].bytesCount = Len(buffer)
        /\ \A i \in 1..(Len(lettersInfos) - 1) :
               lettersInfos[i + 1].bufferOffset =
                   lettersInfos[i].bufferOffset + lettersInfos[i].bytesCount
        /\ SpanBytes(0, Len(lettersInfos)) = buffer

\* C6: when a continuation byte is expected and the buffer has ended, or the
\* byte there is not 10xxxxxx, Main returns 4 and has written no line.  So a
\* run that returns 0 has recorded only spans whose later bytes are all
\* 10xxxxxx, and a buffer that is the byte 0x80, or that ends in a byte
\* 11xxxxxx announcing continuation bytes, makes Main return 4.
MalformedInputExits4 ==
    /\ (pc = "done" /\ failedAt \in {"utfEnd", "utfPattern"}) =>
           exitCode = 4 /\ output = <<>>
    /\ Finished =>
           \A i \in 1..Len(lettersInfos) :
               \A k \in 2..lettersInfos[i].bytesCount :
                   /\ lettersInfos[i].bufferOffset + k <= Len(buffer)
                   /\ buffer[lettersInfos[i].bufferOffset + k] \div 64 = 2
    /\ (pc = "done" /\ buffer = <<128>>) => exitCode = 4 /\ output = <<>>
    /\ (pc = "done" /\ buffer # <<>> /\ buffer[Len(buffer)] \in 192..251) =>
           exitCode = 4 /\ output = <<>>

\* a letter was decoded, then a byte that is no continuation byte was met
\* where one was expected
WitnessBadContinuation ==
    /\ pc = "done"
    /\ failedAt = "utfPattern"
    /\ prevByteIndex > 0
    /\ exitCode = 4

\* C7: every letter of the two alphabets, Latin 65-90 and 97-122 and
\* Cyrillic 1040-1103, is alphabetic after folding: IsAlpha(fold(c)).
AlphabetLettersAreAlpha ==
    (cpAlpha # "unset" /\ cp \in (65..90) \cup (97..122) \cup (1040..1103)) =>
        cpAlpha = "alpha"

\* C8: the registerWord calls are exactly the maximal runs of alphabetic
\* codepoints of the folded sequence, in document order: each has length
\* >= 1, holds only alphabetic codepoints, has a non-alphabetic codepoint or
\* the sequence start / end on each side, and once the loop and the "last
\* word" step are over every alphabetic codepoint is in exactly one of them.
SegmenterRegistersMaximalRuns ==
    /\ \A i \in 1..Len(registered) :
           LET first == registered[i][1]
               count == registered[i][2] IN
           /\ count >= 1
           /\ first >= 0 /\ first + count <= Len(letters)
           /\ \A k \in 1..count : IsAlpha(letters[first + k])
           /\ first = 0 \/ ~IsAlpha(letters[first])
           /\ first + count = Len(letters) \/ ~IsAlpha(letters[first + count + 1])
    /\ \A i \in 1..(Len(registered) - 1) :
           registered[i][1] + registered[i][2] < registered[i + 1][1]
    /\ Gathered =>
           \A q \in 1..Len(letters) :
               IsAlpha(letters[q]) =>
                   Cardinality({i \in 1..Len(registered) :
                                   /\ registered[i][1] < q
                                   /\ q <= registered[i][1] + registered[i][2]}) = 1

\* two words were registered, the second one by the "last word" step
WitnessLastWordRegistered ==
    /\ Gathered
    /\ Len(registered) = 2
    /\ registered[2][1] + registered[2][2] = Len(letters)

\* C9: the records always reference pairwise unequal codepoint sequences and
\* have entries >= 1; a registerWord call either adds 1 to the entries of
\* one record and changes nothing else, or appends one record with entries 1.
RecordsDistinct ==
    /\ \A i \in 1..Len(words) : words[i].entries >= 1
    /\ \A i, j \in 1..Len(words) :
           i # j => WordLetters(letters, words[i]) # WordLetters(letters, words[j])

RegisterWordStep ==
    registered' # registered =>
        \/ \E i \in 1..Len(words) :
               words' = [words EXCEPT ![i] =
                            WordInfo(words[i].startLetterIndex,
                                     words[i].lettersCount,
                                     words[i].entries + 1)]
        \/ /\ Len(words') = Len(words) + 1
           /\ SubSeq(words', 1, Len(words)) = words
           /\ words'[Len(words')].entries = 1

AggregatorKeepsDistinctRecords ==
    [](RecordsDistinct) /\ [][RegisterWordStep]_vars

\* two records, one of them incremented
WitnessIncrementedRecord ==
    /\ pc = "sort"
    /\ Len(registered) = 3
    /\ Len(words) = 2
    /\ words[1].entries = 2
    /\ words[2].entries = 1

\* C10: for a first byte with its high bit set and its highest zero bit,
\* among bits 5..1, at position p, the decoder starts the codepoint with the
\* low p bits of the byte and consumes 6 - p continuation bytes, for every
\* p in 1..5; a decoded letter then spans 7 - p bytes.
HighestZeroBit(byte) ==
    CHOOSE q \in 1..5 :
        Bit(byte, q) = 0 /\ \A r \in (q + 1)..5 : Bit(byte, r) = 1

HasZeroBit(byte) == \E q \in 1..5 : Bit(byte, q) = 0

FirstByteSetsValueAndLength ==
    /\ (pc = "continuation" /\ byteIndex = prevByteIndex) =>
           LET byte == buffer[prevByteIndex + 1] IN
           (byte >= 128 /\ HasZeroBit(byte)) =>
               /\ letter = byte % 2^HighestZeroBit(byte)
               /\ bytesCount - 1 = 6 - HighestZeroBit(byte)
    /\ \A i \in 1..Len(lettersInfos) :
           LET byte == buffer[lettersInfos[i].bufferOffset + 1] IN
           (byte >= 128 /\ HasZeroBit(byte)) =>
               lettersInfos[i].bytesCount = 7 - HighestZeroBit(byte)

====
